---- MODULE Spec2Model ----
(***************************************************************************)
(* Model of script/extract_pdf.py (full-extract: every page of nn.pdf to   *)
(* nn_extracted.txt) and script/read_pdf.py (preview: the first 10 pages   *)
(* of nn.pdf to standard output).                                          *)
(*                                                                         *)
(* Text is a sequence of characters.  A character is a one-element string; *)
(* the Hangul syllables of the banners are written by their romanised      *)
(* names ("chong" is U+CD1D, "pe" "i" "ji" is the word for page, ...),     *)
(* each standing for one character.                                        *)
(***************************************************************************)
EXTENDS Integers, Sequences, FiniteSets

\* ------------------------------------------------------------------ bounds

\* The longest document checked, in pages.
MaxPages == 11

\* ---------------------------------------------------------- the environment

\* What a page's extract_text() returns: nothing (a blank or image-only
\* page) or two lines of text.
EmptyText == << >>
SampleText == <<"a", "\n", "b">>

\* The documents nn.pdf may hold: n pages, page b of them (none when b = 0)
\* extracting to the empty string.
Docs ==
    UNION { { [k \in 1..n |-> IF k = b THEN EmptyText ELSE SampleText] :
                b \in 0..n } : n \in 0..MaxPages }

\* What nn_extracted.txt may hold before the first run: absent, or a file
\* of unrelated content.
NoFile == [exists |-> FALSE, data |-> << >>]
OldFiles == { NoFile, [exists |-> TRUE, data |-> <<"o", "l", "d">>] }

\* ------------------------------------------------------ library operations

\* "=" * 60
Rep(c, n) == [j \in 1..n |-> c]

Digit(d) ==
    CASE d = 0 -> "0" [] d = 1 -> "1" [] d = 2 -> "2" [] d = 3 -> "3"
      [] d = 4 -> "4" [] d = 5 -> "5" [] d = 6 -> "6" [] d = 7 -> "7"
      [] d = 8 -> "8" [] d = 9 -> "9"

\* str(n) of a natural number, as an f-string formats {n}.
RECURSIVE Str(_)
Str(n) == IF n < 10 THEN <<Digit(n)>> ELSE Str(n \div 10) \o <<Digit(n % 10)>>

\* min(a, b)
Min(a, b) == IF a < b THEN a ELSE b

\* print(s): s and a line end.
print(s) == s \o <<"\n">>

\* open(path, 'a'): the file is created, or kept when it exists.
OpenA(f) == [exists |-> TRUE, data |-> f.data]
\* open(path, 'w'): the file is created, or truncated when it exists.
OpenW(f) == [exists |-> TRUE, data |-> << >>]

\* out.write(s)
Write(f, s) == [f EXCEPT !.data = @ \o s]

\* ------------------------------------------------------------- the strings

SepWidth == 60
PreviewPages == 10

\* f'\n{"="*60}\n'
ExtractSepOpen == <<"\n">> \o Rep("=", SepWidth) \o <<"\n">>
\* The label with the internal index displayed as it is.
ExtractLabelZeroBased(idx) == <<"pe", "i", "ji", " ">> \o Str(idx) \o <<"\n">>
\* f'[page] {i+1}\n'
ExtractLabel(idx) == <<"pe", "i", "ji", " ">> \o Str(idx + 1) \o <<"\n">>
\* The closing separator without the blank line after it.
ExtractSepCloseNoBlank == Rep("=", SepWidth) \o <<"\n">>
\* f'{"="*60}\n\n'
ExtractSepClose == Rep("=", SepWidth) \o <<"\n", "\n">>
\* f'[total page count]: {total_pages}\n\n'
ExtractHeader(n) ==
    <<"chong", " ", "pe", "i", "ji", " ", "su", ":", " ">> \o Str(n)
        \o <<"\n", "\n">>
\* f'[extraction complete]! [total] {total_pages} [pages]'
ExtractDone(n) ==
    <<"chu", "chul", " ", "wan", "ryo", "!", " ", "chong", " ">> \o Str(n)
        \o <<" ", "pe", "i", "ji">>

\* f'[total page count]: {len(reader.pages)}\n'
ReadHeader(n) ==
    <<"chong", " ", "pe", "i", "ji", " ", "su", ":", " ">> \o Str(n) \o <<"\n">>
\* f'\n{"="*60}'
ReadSepOpen == <<"\n">> \o Rep("=", SepWidth)
\* f'[page] {i+1}'
ReadLabel(idx) == <<"pe", "i", "ji", " ">> \o Str(idx + 1)
\* The closing separator with nothing after it.
ReadSepCloseBare == Rep("=", SepWidth)
\* f'{"="*60}\n'
ReadSepClose == Rep("=", SepWidth) \o <<"\n">>
\* The range without the cap of ten pages.
ReadLimitUncapped(n) == n
\* range(min(10, len(reader.pages)))
ReadLimit(n) == Min(PreviewPages, n)

\* ---------------------------------------------------------------- the state

VARIABLES
    doc,            \* the document nn.pdf holds
    nn_extracted,   \* nn_extracted.txt on disk: [exists, data]
    script,         \* the script that is running or ran last
    pc,             \* the line the script is at
    file,           \* the handle of nn.pdf: "unopened", "open", "closed"
    out,            \* the handle of nn_extracted.txt, likewise
    reader,         \* PyPDF2.PdfReader(file): [parsed, pages]
    total_pages,    \* extract_pdf.py's total_pages
    i,              \* the loop variable
    text,           \* the text of the page at hand
    stdout,         \* what the run has written to standard output
    encoding,       \* the encoding of sys.stdout
    err,            \* the exception that is propagating, or "none"
    fileOpens,      \* how often the run opened nn.pdf
    outOpens,       \* how often the run opened nn_extracted.txt
    lastOut         \* nn_extracted.txt as the last completed full extract left it

vars ==
    <<doc, nn_extracted, script, pc, file, out, reader, total_pages, i, text,
      stdout, encoding, err, fileOpens, outOpens, lastOut>>

NoReader == [parsed |-> FALSE, pages |-> << >>]
NotYet == [set |-> FALSE, data |-> << >>]

Terminal == {"done", "failed"}

Init ==
    /\ doc \in Docs
    /\ nn_extracted \in OldFiles
    /\ script = "none"
    /\ pc = "idle"
    /\ file = "unopened"
    /\ out = "unopened"
    /\ reader = NoReader
    /\ total_pages = 0
    /\ i = 0
    /\ text = << >>
    /\ stdout = << >>
    /\ encoding = "default"
    /\ err = "none"
    /\ fileOpens = 0
    /\ outOpens = 0
    /\ lastOut = NotYet

\* ------------------------------------------------------------ starting a run

\* A new process runs script s: fresh handles, fresh variables, an empty
\* standard output.  The disk keeps what the earlier runs left.
Start(s) ==
    /\ pc \in Terminal \cup {"idle"}
    /\ script' = s
    /\ pc' = IF s = "extract_pdf" THEN "e3" ELSE "r5"
    /\ file' = "unopened"
    /\ out' = "unopened"
    /\ reader' = NoReader
    /\ total_pages' = 0
    /\ i' = 0
    /\ text' = << >>
    /\ stdout' = << >>
    /\ encoding' = "default"
    /\ err' = "none"
    /\ fileOpens' = 0
    /\ outOpens' = 0
    /\ UNCHANGED <<doc, nn_extracted, lastOut>>

\* --------------------------------------------------------- extract_pdf.py

\* The two opens in the other order: nn_extracted.txt is opened for writing
\* before nn.pdf is tried.
ExtractOpenFileAfterOut ==
    /\ script = "extract_pdf" /\ pc = "e3"
    /\ nn_extracted' = OpenW(nn_extracted)
    /\ \/ /\ file' = "open"
          /\ fileOpens' = fileOpens + 1
          /\ pc' = "e4"
          /\ err' = err
       \/ /\ err' = "OSError nn.pdf"
          /\ pc' = "failed"
          /\ UNCHANGED <<file, fileOpens>>
    /\ UNCHANGED <<doc, script, out, reader, total_pages, i, text, stdout,
                   encoding, outOpens, lastOut>>

\* The open of nn.pdf with its failure caught and passed over: the script
\* goes on to its last line.
ExtractOpenFileSwallowed ==
    /\ script = "extract_pdf" /\ pc = "e3"
    /\ \/ /\ file' = "open"
          /\ fileOpens' = fileOpens + 1
          /\ pc' = "e4"
          /\ err' = err
       \/ /\ err' = "OSError nn.pdf"
          /\ pc' = "e19"
          /\ UNCHANGED <<file, fileOpens>>
    /\ UNCHANGED <<doc, nn_extracted, script, out, reader, total_pages, i,
                   text, stdout, encoding, outOpens, lastOut>>

\* line 3: with open('nn.pdf', 'rb') as file.  When open() raises, the with
\* block is never entered and there is no handle to close.
ExtractOpenFile ==
    /\ script = "extract_pdf" /\ pc = "e3"
    /\ \/ /\ file' = "open"
          /\ fileOpens' = fileOpens + 1
          /\ pc' = "e4"
          /\ err' = err
       \/ /\ err' = "OSError nn.pdf"
          /\ pc' = "failed"
          /\ UNCHANGED <<file, fileOpens>>
    /\ UNCHANGED <<doc, nn_extracted, script, out, reader, total_pages, i,
                   text, stdout, encoding, outOpens, lastOut>>

\* line 4: reader = PyPDF2.PdfReader(file).  An exception leaves through the
\* with block of line 3.
ExtractParse ==
    /\ script = "extract_pdf" /\ pc = "e4"
    /\ \/ /\ reader' = [parsed |-> TRUE, pages |-> doc]
          /\ pc' = "e5"
          /\ err' = err
       \/ /\ err' = "PdfReadError"
          /\ pc' = "e_exit_file"
          /\ reader' = reader
    /\ UNCHANGED <<doc, nn_extracted, script, file, out, total_pages, i, text,
                   stdout, encoding, fileOpens, outOpens, lastOut>>

\* line 5: total_pages = len(reader.pages).  The library reads the page
\* tree here and may raise on a document it cannot read.
ExtractCount ==
    /\ script = "extract_pdf" /\ pc = "e5"
    /\ \/ /\ total_pages' = Len(reader.pages)
          /\ pc' = "e7"
          /\ err' = err
       \/ /\ err' = "PdfReadError"
          /\ pc' = "e_exit_file"
          /\ total_pages' = total_pages
    /\ UNCHANGED <<doc, nn_extracted, script, file, out, reader, i, text,
                   stdout, encoding, fileOpens, outOpens, lastOut>>

\* line 7: with open('nn_extracted.txt', 'w', encoding='utf-8') as out
ExtractOpenOut ==
    /\ script = "extract_pdf" /\ pc = "e7"
    /\ \/ /\ nn_extracted' = OpenW(nn_extracted)
          /\ out' = "open"
          /\ outOpens' = outOpens + 1
          /\ pc' = "e8"
          /\ err' = err
       \/ /\ err' = "OSError nn_extracted.txt"
          /\ pc' = "e_exit_file"
          /\ UNCHANGED <<nn_extracted, out, outOpens>>
    /\ UNCHANGED <<doc, script, file, reader, total_pages, i, text, stdout,
                   encoding, fileOpens, lastOut>>

\* line 8: out.write(header)
ExtractWriteHeader ==
    /\ script = "extract_pdf" /\ pc = "e8"
    /\ nn_extracted' = Write(nn_extracted, ExtractHeader(total_pages))
    /\ pc' = "e11"
    /\ UNCHANGED <<doc, script, file, out, reader, total_pages, i, text,
                   stdout, encoding, err, fileOpens, outOpens, lastOut>>

\* line 11: for i in range(total_pages).  i is the index the iterator hands
\* out next; the loop ends, and the inner with block with it, when the
\* range is used up.
ExtractFor ==
    /\ script = "extract_pdf" /\ pc = "e11"
    /\ pc' = IF i < total_pages THEN "e12" ELSE "e_exit_out"
    /\ UNCHANGED <<doc, nn_extracted, script, file, out, reader, total_pages,
                   i, text, stdout, encoding, err, fileOpens, outOpens,
                   lastOut>>

\* line 12: out.write(f'\n{"="*60}\n')
ExtractWriteSepOpen ==
    /\ script = "extract_pdf" /\ pc = "e12"
    /\ nn_extracted' = Write(nn_extracted, ExtractSepOpen)
    /\ pc' = "e13"
    /\ UNCHANGED <<doc, script, file, out, reader, total_pages, i, text,
                   stdout, encoding, err, fileOpens, outOpens, lastOut>>

\* line 13: out.write(f'[page] {i+1}\n')
ExtractWriteLabel ==
    /\ script = "extract_pdf" /\ pc = "e13"
    /\ nn_extracted' = Write(nn_extracted, ExtractLabel(i))
    /\ pc' = "e14"
    /\ UNCHANGED <<doc, script, file, out, reader, total_pages, i, text,
                   stdout, encoding, err, fileOpens, outOpens, lastOut>>

\* line 14: out.write(f'{"="*60}\n\n')
ExtractWriteSepClose ==
    /\ script = "extract_pdf" /\ pc = "e14"
    /\ nn_extracted' = Write(nn_extracted, ExtractSepClose)
    /\ pc' = "e15"
    /\ UNCHANGED <<doc, script, file, out, reader, total_pages, i, text,
                   stdout, encoding, err, fileOpens, outOpens, lastOut>>

\* The extraction with its failure noted and passed over: the loop goes on
\* with the text it had.
ExtractTextContinue ==
    /\ script = "extract_pdf" /\ pc = "e15"
    /\ \/ /\ text' = reader.pages[i + 1]
          /\ pc' = "e16"
          /\ err' = err
       \/ /\ err' = "extract_text"
          /\ pc' = "e16"
          /\ text' = text
    /\ UNCHANGED <<doc, nn_extracted, script, file, out, reader, total_pages,
                   i, stdout, encoding, fileOpens, outOpens, lastOut>>

\* The extraction outside any with block: an exception ends the run with
\* both files as they are.
ExtractTextNoCleanup ==
    /\ script = "extract_pdf" /\ pc = "e15"
    /\ \/ /\ text' = reader.pages[i + 1]
          /\ pc' = "e16"
          /\ err' = err
       \/ /\ err' = "extract_text"
          /\ pc' = "failed"
          /\ text' = text
    /\ UNCHANGED <<doc, nn_extracted, script, file, out, reader, total_pages,
                   i, stdout, encoding, fileOpens, outOpens, lastOut>>

\* line 15: text = reader.pages[i].extract_text().  The library returns the
\* page's text or raises; an exception leaves through both with blocks.
ExtractText ==
    /\ script = "extract_pdf" /\ pc = "e15"
    /\ \/ /\ text' = reader.pages[i + 1]
          /\ pc' = "e16"
          /\ err' = err
       \/ /\ err' = "extract_text"
          /\ pc' = "e_exit_out"
          /\ text' = text
    /\ UNCHANGED <<doc, nn_extracted, script, file, out, reader, total_pages,
                   i, stdout, encoding, fileOpens, outOpens, lastOut>>

\* The write of the text with an empty page passed over: the loop goes on
\* to the next page and the page's newline is not written.
ExtractWriteTextSkipEmpty ==
    /\ script = "extract_pdf" /\ pc = "e16"
    /\ IF text = << >>
       THEN /\ i' = i + 1
            /\ pc' = "e11"
            /\ nn_extracted' = nn_extracted
       ELSE /\ nn_extracted' = Write(nn_extracted, text)
            /\ pc' = "e17"
            /\ i' = i
    /\ UNCHANGED <<doc, script, file, out, reader, total_pages, text,
                   stdout, encoding, err, fileOpens, outOpens, lastOut>>

\* line 16: out.write(text)
ExtractWriteText ==
    /\ script = "extract_pdf" /\ pc = "e16"
    /\ nn_extracted' = Write(nn_extracted, text)
    /\ pc' = "e17"
    /\ UNCHANGED <<doc, script, file, out, reader, total_pages, i, text,
                   stdout, encoding, err, fileOpens, outOpens, lastOut>>

\* line 17: out.write('\n'), and back to the head of the loop.
ExtractWriteNewline ==
    /\ script = "extract_pdf" /\ pc = "e17"
    /\ nn_extracted' = Write(nn_extracted, <<"\n">>)
    /\ i' = i + 1
    /\ pc' = "e11"
    /\ UNCHANGED <<doc, script, file, out, reader, total_pages, text, stdout,
                   encoding, err, fileOpens, outOpens, lastOut>>

\* The end of the with block of line 7, reached normally or by an
\* exception: out is closed.
ExtractExitOut ==
    /\ script = "extract_pdf" /\ pc = "e_exit_out"
    /\ out' = "closed"
    /\ pc' = "e_exit_file"
    /\ UNCHANGED <<doc, nn_extracted, script, file, reader, total_pages, i,
                   text, stdout, encoding, err, fileOpens, outOpens, lastOut>>

\* The end of the with block of line 3: file is closed; an exception that
\* is propagating ends the run.
ExtractExitFile ==
    /\ script = "extract_pdf" /\ pc = "e_exit_file"
    /\ file' = "closed"
    /\ pc' = IF err = "none" THEN "e19" ELSE "failed"
    /\ UNCHANGED <<doc, nn_extracted, script, out, reader, total_pages, i,
                   text, stdout, encoding, err, fileOpens, outOpens, lastOut>>

\* line 19: print(completion message).  lastOut records the file this
\* completed run leaves.
ExtractPrintDone ==
    /\ script = "extract_pdf" /\ pc = "e19"
    /\ stdout' = stdout \o print(ExtractDone(total_pages))
    /\ lastOut' = [set |-> TRUE, data |-> nn_extracted.data]
    /\ pc' = "done"
    /\ UNCHANGED <<doc, nn_extracted, script, file, out, reader, total_pages,
                   i, text, encoding, err, fileOpens, outOpens>>

\* ------------------------------------------------------------ read_pdf.py

\* line 5: sys.stdout.reconfigure(encoding='utf-8')
ReadReconfigure ==
    /\ script = "read_pdf" /\ pc = "r5"
    /\ encoding' = "utf-8"
    /\ pc' = "r7"
    /\ UNCHANGED <<doc, nn_extracted, script, file, out, reader, total_pages,
                   i, text, stdout, err, fileOpens, outOpens, lastOut>>

\* line 7: with open('nn.pdf', 'rb') as file
ReadOpenFile ==
    /\ script = "read_pdf" /\ pc = "r7"
    /\ \/ /\ file' = "open"
          /\ fileOpens' = fileOpens + 1
          /\ pc' = "r8"
          /\ err' = err
       \/ /\ err' = "OSError nn.pdf"
          /\ pc' = "failed"
          /\ UNCHANGED <<file, fileOpens>>
    /\ UNCHANGED <<doc, nn_extracted, script, out, reader, total_pages, i,
                   text, stdout, encoding, outOpens, lastOut>>

\* line 8: reader = PyPDF2.PdfReader(file)
ReadParse ==
    /\ script = "read_pdf" /\ pc = "r8"
    /\ \/ /\ reader' = [parsed |-> TRUE, pages |-> doc]
          /\ pc' = "r9"
          /\ err' = err
       \/ /\ err' = "PdfReadError"
          /\ pc' = "r_exit_file"
          /\ reader' = reader
    /\ UNCHANGED <<doc, nn_extracted, script, file, out, total_pages, i, text,
                   stdout, encoding, fileOpens, outOpens, lastOut>>

\* line 9: print(header).  len(reader.pages) is evaluated first and may
\* raise, as in extract_pdf.py.
ReadPrintHeader ==
    /\ script = "read_pdf" /\ pc = "r9"
    /\ \/ /\ stdout' = stdout \o print(ReadHeader(Len(reader.pages)))
          /\ pc' = "r12"
          /\ err' = err
       \/ /\ err' = "PdfReadError"
          /\ pc' = "r_exit_file"
          /\ stdout' = stdout
    /\ UNCHANGED <<doc, nn_extracted, script, file, out, reader, total_pages,
                   i, text, encoding, fileOpens, outOpens, lastOut>>

\* line 12: for i in range(min(10, len(reader.pages)))
ReadFor ==
    /\ script = "read_pdf" /\ pc = "r12"
    /\ pc' = IF i < ReadLimit(Len(reader.pages)) THEN "r13" ELSE "r_exit_file"
    /\ UNCHANGED <<doc, nn_extracted, script, file, out, reader, total_pages,
                   i, text, stdout, encoding, err, fileOpens, outOpens,
                   lastOut>>

\* line 13: print(f'\n{"="*60}')
ReadPrintSepOpen ==
    /\ script = "read_pdf" /\ pc = "r13"
    /\ stdout' = stdout \o print(ReadSepOpen)
    /\ pc' = "r14"
    /\ UNCHANGED <<doc, nn_extracted, script, file, out, reader, total_pages,
                   i, text, encoding, err, fileOpens, outOpens, lastOut>>

\* line 14: print(f'[page] {i+1}')
ReadPrintLabel ==
    /\ script = "read_pdf" /\ pc = "r14"
    /\ stdout' = stdout \o print(ReadLabel(i))
    /\ pc' = "r15"
    /\ UNCHANGED <<doc, nn_extracted, script, file, out, reader, total_pages,
                   i, text, encoding, err, fileOpens, outOpens, lastOut>>

\* line 15: print(f'{"="*60}\n')
ReadPrintSepClose ==
    /\ script = "read_pdf" /\ pc = "r15"
    /\ stdout' = stdout \o print(ReadSepClose)
    /\ pc' = "r16"
    /\ UNCHANGED <<doc, nn_extracted, script, file, out, reader, total_pages,
                   i, text, encoding, err, fileOpens, outOpens, lastOut>>

\* line 16: text = reader.pages[i].extract_text()
ReadText ==
    /\ script = "read_pdf" /\ pc = "r16"
    /\ \/ /\ text' = reader.pages[i + 1]
          /\ pc' = "r17"
          /\ err' = err
       \/ /\ err' = "extract_text"
          /\ pc' = "r_exit_file"
          /\ text' = text
    /\ UNCHANGED <<doc, nn_extracted, script, file, out, reader, total_pages,
                   i, stdout, encoding, fileOpens, outOpens, lastOut>>

\* line 17: print(text), and back to the head of the loop.
ReadPrintText ==
    /\ script = "read_pdf" /\ pc = "r17"
    /\ stdout' = stdout \o print(text)
    /\ i' = i + 1
    /\ pc' = "r12"
    /\ UNCHANGED <<doc, nn_extracted, script, file, out, reader, total_pages,
                   text, encoding, err, fileOpens, outOpens, lastOut>>

\* The end of the with block of line 7, reached normally or by an
\* exception: file is closed.
ReadExitFile ==
    /\ script = "read_pdf" /\ pc = "r_exit_file"
    /\ file' = "closed"
    /\ pc' = IF err = "none" THEN "done" ELSE "failed"
    /\ UNCHANGED <<doc, nn_extracted, script, out, reader, total_pages, i,
                   text, stdout, encoding, err, fileOpens, outOpens, lastOut>>

\* ------------------------------------------------------- the specification

Next ==
    \/ \E s \in {"extract_pdf", "read_pdf"} : Start(s)
    \/ ExtractOpenFile \/ ExtractParse \/ ExtractCount \/ ExtractOpenOut
    \/ ExtractWriteHeader \/ ExtractFor \/ ExtractWriteSepOpen
    \/ ExtractWriteLabel \/ ExtractWriteSepClose \/ ExtractText
    \/ ExtractWriteText \/ ExtractWriteNewline \/ ExtractExitOut
    \/ ExtractExitFile \/ ExtractPrintDone
    \/ ReadReconfigure \/ ReadOpenFile \/ ReadParse \/ ReadPrintHeader
    \/ ReadFor \/ ReadPrintSepOpen \/ ReadPrintLabel \/ ReadPrintSepClose
    \/ ReadText \/ ReadPrintText \/ ReadExitFile

Spec == Init /\ [][Next]_vars

\* ------------------------------------------------- reading an output back

\* s.split('\n'): the pieces of s between its line ends.
RECURSIVE Split(_)
Split(s) ==
    IF Len(s) = 0 THEN << << >> >>
    ELSE IF Len(s) = 1 THEN (IF s[1] = "\n" THEN << << >>, << >> >> ELSE <<s>>)
    ELSE LET h == Len(s) \div 2
             A == Split(SubSeq(s, 1, h))
             B == Split(SubSeq(s, h + 1, Len(s)))
         IN  SubSeq(A, 1, Len(A) - 1) \o <<A[Len(A)] \o B[1]>> \o Tail(B)

\* The lines of s, each without its line end, and what follows the last
\* line end.
Lines(s) == LET P == Split(s) IN SubSeq(P, 1, Len(P) - 1)
Unended(s) == LET P == Split(s) IN P[Len(P)]

Digits == {"0", "1", "2", "3", "4", "5", "6", "7", "8", "9"}
IsNumber(s) == Len(s) > 0 /\ \A k \in 1..Len(s) : s[k] \in Digits
DigitValue(c) == CHOOSE d \in 0..9 : Digit(d) = c
RECURSIVE ParseNat(_)
ParseNat(s) ==
    IF Len(s) = 1 THEN DigitValue(s[1])
    ELSE 10 * ParseNat(SubSeq(s, 1, Len(s) - 1)) + DigitValue(s[Len(s)])

\* A separator line: sixty "=".
SepLine == [j \in 1..60 |-> "="]
PageWord == <<"pe", "i", "ji", " ">>
TotalWords == <<"chong", " ", "pe", "i", "ji", " ", "su", ":", " ">>

\* A label line: the word for page, a blank and a number.
IsLabel(l) ==
    /\ Len(l) > Len(PageWord)
    /\ SubSeq(l, 1, Len(PageWord)) = PageWord
    /\ IsNumber(SubSeq(l, Len(PageWord) + 1, Len(l)))
LabelNumber(l) == ParseNat(SubSeq(l, Len(PageWord) + 1, Len(l)))

\* The places of the label lines that stand between two separator lines,
\* in the order of the text, and the numbers they carry.
BannerPlaces(L) ==
    SelectSeq([j \in 1..Len(L) |-> j],
              LAMBDA j : /\ 1 < j /\ j < Len(L)
                         /\ L[j - 1] = SepLine
                         /\ IsLabel(L[j])
                         /\ L[j + 1] = SepLine)
BlockLabels(s) ==
    LET L == Lines(s)
        P == BannerPlaces(L)
    IN  [k \in 1..Len(P) |-> LabelNumber(L[P[k]])]
SepLineCount(s) ==
    LET L == Lines(s) IN Cardinality({j \in 1..Len(L) : L[j] = SepLine})

\* The number the header line reports, -1 when the first line is no header.
HeaderCount(s) ==
    LET L == Lines(s)
        n == Len(TotalWords)
    IN  IF /\ Len(L) > 0
           /\ Len(L[1]) > n
           /\ SubSeq(L[1], 1, n) = TotalWords
           /\ IsNumber(SubSeq(L[1], n + 1, Len(L[1])))
        THEN ParseNat(SubSeq(L[1], n + 1, Len(L[1])))
        ELSE -1

OneTo(n) == [k \in 1..n |-> k]
IsPrefix(s, t) == Len(s) <= Len(t) /\ s = SubSeq(t, 1, Len(s))

ExtractCompleted == script = "extract_pdf" /\ pc = "done"
ReadCompleted == script = "read_pdf" /\ pc = "done"

\* ------------------------------------------------------------------ claims

\* C1: a completed full extract of an N-page document has written exactly N
\* page blocks to nn_extracted.txt, the k-th labelled k, for k = 1..N in
\* order (and no separator line besides the two of each block).
C1_FullExtractLabels ==
    ExtractCompleted =>
        /\ BlockLabels(nn_extracted.data) = OneTo(Len(doc))
        /\ SepLineCount(nn_extracted.data) = 2 * Len(doc)

C1_Witness ==
    /\ ExtractCompleted
    /\ Len(doc) >= 3
    /\ BlockLabels(nn_extracted.data) = OneTo(Len(doc))

\* C2: a completed preview of an N-page document has written exactly
\* min(10, N) page blocks to standard output, labelled 1..min(10, N) in
\* order (N blocks when N < 10, 10 when N >= 10), under a header that
\* reports N; a preview never opens nn_extracted.txt and no step of it
\* changes the file on disk.
C2_PreviewBlocks ==
    /\ [](ReadCompleted =>
            LET N == Len(doc)
                shown == IF N < 10 THEN N ELSE 10
            IN  /\ BlockLabels(stdout) = OneTo(shown)
                /\ SepLineCount(stdout) = 2 * shown
                /\ HeaderCount(stdout) = N)
    /\ [](script = "read_pdf" => out = "unopened" /\ outOpens = 0)
    /\ [][script' = "read_pdf" => nn_extracted' = nn_extracted]_vars

C2_Witness ==
    /\ ReadCompleted
    /\ Len(doc) > 10
    /\ BlockLabels(stdout) = OneTo(10)
    /\ HeaderCount(stdout) = Len(doc)
    /\ ~nn_extracted.exists

\* C3: a run whose open of nn.pdf failed has ended in failure holding no
\* handle: the full extract has not opened nn_extracted.txt, and nothing
\* (no completion message, no header, no banner) is on standard output.
C3_MissingInput ==
    err = "OSError nn.pdf" =>
        /\ pc = "failed"
        /\ file = "unopened" /\ fileOpens = 0
        /\ out = "unopened" /\ outOpens = 0
        /\ stdout = << >>

C3_Witness ==
    /\ script = "extract_pdf"
    /\ err = "OSError nn.pdf"
    /\ pc = "failed"
    /\ ~nn_extracted.exists

\* C4: in every state where a run has ended, and where the full extract is
\* past its with blocks, every handle the run opened is closed, whatever
\* ended the run; and no run opens a handle twice.
C4_HandlesClosed ==
    /\ fileOpens <= 1 /\ outOpens <= 1
    /\ (file = "unopened") = (fileOpens = 0)
    /\ (out = "unopened") = (outOpens = 0)
    /\ pc \in Terminal \cup {"e19"} => file # "open" /\ out # "open"

C4_Witness ==
    /\ script = "extract_pdf"
    /\ pc = "failed"
    /\ err = "extract_text"
    /\ i >= 1
    /\ fileOpens = 1 /\ file = "closed"
    /\ outOpens = 1 /\ out = "closed"

\* ------------------------------------------- the outputs, line by line

Line(s) == s \o <<"\n">>
BlankLine == <<"\n">>
HeaderLine(n) == Line(TotalWords \o Str(n))
\* The banner of page k: separator line, label line, separator line.
Banner(k) == Line(SepLine) \o Line(PageWord \o Str(k)) \o Line(SepLine)
\* separator / label / separator / blank / text / newline
Block(d, k) == Banner(k) \o BlankLine \o d[k] \o <<"\n">>

\* The blocks of pages 1..n, one directly after the other.
RECURSIVE Blocks(_, _)
Blocks(d, n) == IF n = 0 THEN << >> ELSE Blocks(d, n - 1) \o Block(d, n)

\* The blocks of pages 1..n, a blank line before each.
RECURSIVE SpacedBlocks(_, _)
SpacedBlocks(d, n) ==
    IF n = 0 THEN << >>
    ELSE SpacedBlocks(d, n - 1) \o BlankLine \o Block(d, n)

\* C5, as stated: the file of a completed full extract is the header line,
\* one blank line, and the blocks of pages 1..N one directly after the
\* other.
C5_AsStated ==
    ExtractCompleted =>
        nn_extracted.data
            = HeaderLine(Len(doc)) \o BlankLine \o Blocks(doc, Len(doc))

\* C5, amended: the file of a completed full extract is the header line, one
\* blank line, and for each page k = 1..N a blank line followed by the block
\* of page k (separator line of 60 characters, label line, separator line,
\* blank line, the text of page k, a newline).
C5_BlankLineBeforeBlock ==
    ExtractCompleted =>
        nn_extracted.data
            = HeaderLine(Len(doc)) \o BlankLine \o SpacedBlocks(doc, Len(doc))

C5_Witness ==
    /\ ExtractCompleted
    /\ Len(doc) >= 2
    /\ Len(nn_extracted.data)
         = Len(HeaderLine(Len(doc))) + 1 + Len(Blocks(doc, Len(doc))) + Len(doc)

\* C6: in a completed run of either mode, a page that extracts to the empty
\* string has its block like any other: the number of blocks is the number
\* of pages shown, the block carries the page's 1-based label between its
\* two separator lines, its text region is the empty line made by the
\* trailing newline alone, and the next page's block (or the end of the
\* output) follows.
C6_EmptyPageBlock ==
    pc = "done" =>
        LET s == IF script = "extract_pdf" THEN nn_extracted.data ELSE stdout
            N == Len(doc)
            shown == IF script = "extract_pdf" \/ N < 10 THEN N ELSE 10
            L == Lines(s)
            P == BannerPlaces(L)
        IN  /\ err = "none"
            /\ Len(P) = shown
            /\ \A k \in 1..shown :
                 doc[k] = << >> =>
                   LET j == P[k]
                   IN  /\ LabelNumber(L[j]) = k
                       /\ Len(L) >= j + 3
                       /\ L[j + 2] = << >>
                       /\ L[j + 3] = << >>
                       /\ IF k = shown
                          THEN Len(L) = j + 3 /\ Unended(s) = << >>
                          ELSE L[j + 4] = << >> /\ P[k + 1] = j + 6

C6_Witness ==
    /\ ExtractCompleted
    /\ Len(doc) = 3
    /\ doc[2] = << >>
    /\ BlockLabels(nn_extracted.data) = OneTo(3)

\* C7: when a full extract completes after an earlier completed full
\* extract of the same document, the file it leaves is character for
\* character the file the earlier one left, whatever the file held when the
\* run began.
C7_Idempotent ==
    script = "extract_pdf" /\ pc = "e19" /\ lastOut.set =>
        nn_extracted.exists /\ nn_extracted.data = lastOut.data

C7_Witness ==
    /\ script = "extract_pdf" /\ pc = "e19" /\ lastOut.set
    /\ Len(doc) >= 2
    /\ nn_extracted.data = lastOut.data

\* C8: what a completed preview wrote to standard output is the leading
\* part of the file a completed full extract of the same document leaves,
\* ends after min(10, N) blocks, and is the whole file when N <= 10.
C8_PreviewIsPrefix ==
    ReadCompleted /\ lastOut.set =>
        LET N == Len(doc)
        IN  /\ IsPrefix(stdout, lastOut.data)
            /\ Len(BlockLabels(stdout)) = (IF N < 10 THEN N ELSE 10)
            /\ N <= 10 => stdout = lastOut.data

C8_Witness ==
    /\ ReadCompleted /\ lastOut.set
    /\ Len(doc) > 10
    /\ IsPrefix(stdout, lastOut.data)
    /\ stdout # lastOut.data

\* C9: once the extraction of page i+1 has failed in a full extract, the
\* run only unwinds: the file holds the header, the blocks of pages 1..i and
\* the banner of page i+1 with no text, and nothing is on standard output.
\* The completion message is on standard output only in a run that went
\* through all N pages without an exception and has closed both files, and
\* it reports N.
C9_ExtractionFailureFatal ==
    /\ script = "extract_pdf" /\ err = "extract_text" =>
         /\ pc \in {"e_exit_out", "e_exit_file", "failed"}
         /\ i < Len(doc)
         /\ stdout = << >>
         /\ nn_extracted.data
              = HeaderLine(Len(doc)) \o BlankLine \o SpacedBlocks(doc, i)
                  \o BlankLine \o Banner(i + 1) \o BlankLine
    /\ script = "extract_pdf" /\ stdout # << >> =>
         /\ pc = "done" /\ err = "none"
         /\ i = Len(doc) /\ total_pages = Len(doc)
         /\ file = "closed" /\ out = "closed"
         /\ stdout = print(ExtractDone(Len(doc)))

C9_Witness ==
    /\ script = "extract_pdf" /\ err = "extract_text" /\ pc = "failed"
    /\ i = 2 /\ Len(doc) > 3
    /\ BlockLabels(nn_extracted.data) = OneTo(3)

\* C10: the full extract opens nn_extracted.txt only with nn.pdf open, the
\* document parsed and its page count taken; no step up to that open, and
\* no step of a run that fails on a missing input or on a document that
\* does not parse, changes the file on disk.
C10_OutputOpenedLast ==
    /\ [](script = "extract_pdf" /\ out # "unopened" =>
            /\ file # "unopened"
            /\ reader.parsed
            /\ total_pages = Len(doc))
    /\ [][script' = "extract_pdf"
            /\ (\/ pc' \in {"e3", "e4", "e5", "e7"}
                \/ err' \in {"OSError nn.pdf", "PdfReadError"})
          => nn_extracted' = nn_extracted]_vars

C10_Witness ==
    /\ script = "extract_pdf" /\ pc = "failed" /\ err = "PdfReadError"
    /\ lastOut.set /\ Len(doc) >= 1
    /\ nn_extracted.data = lastOut.data

====
